---- MODULE Spec2Model ----
(***************************************************************************)
(* Render loop, swapchain rebuild and teardown of VulkanApp                *)
(* (src/src/vulkan_app.rs, src/src/swap_chain_utils.rs).                   *)
(*                                                                         *)
(* The CPU side is the single thread that runs the winit callback of       *)
(* VulkanApp::run; `pc` is its position inside the callback, draw_frame    *)
(* and recreate_swap_chain.  The GPU side is the graphics queue: the       *)
(* submissions not yet completed, in submission order, completed one at a  *)
(* time by GpuComplete, which may interleave with every CPU step.          *)
(***************************************************************************)
EXTENDS Integers, Sequences, FiniteSets, TLC

----------------------------------------------------------------------------
\* Bounds of the model

\* largest width/height a resize event or a surface extent carries
MaxDim == 1
\* u32 values are modelled WordBits wide; U32_MAX stands for u32::MAX
WordBits == 10
\* largest number of images a created swapchain reports
MaxImages == 2
\* completed ticks counted from the start before the count is given up
MaxTicks == 3
\* largest width/height in the capability records and requests of BuildSpec
FnDim == 2
\* longest list of surface formats the surface reports in BuildSpec
MaxFormats == 2
\* calls of recreate_swap_chain in a row in BuildSpec
MaxRebuilds == 2
\* images of the swapchain in FrameSpec
FrameImages == 3

----------------------------------------------------------------------------
\* Program constants

MAX_FRAMES_IN_FLIGHT == 2
WIDTH == 800
HEIGHT == 800

U32_MAX == (2 ^ WordBits) - 1

Slots == 0 .. (MAX_FRAMES_IN_FLIGHT - 1)

\* Option<(u32, u32)>: None is the empty sequence, Some((w, h)) is <<w, h>>
None == << >>
Some(w, h) == << w, h >>

----------------------------------------------------------------------------
\* Inputs from the environment

\* WindowEvent values the callback distinguishes; a Resized event carries a
\* square size here (sizes that differ between the axes: BuildSpec)
ResizeEvents == { [kind |-> "Resized", size |-> Some(w, w)] :
                    w \in 0 .. MaxDim }
Events == { [kind |-> "CloseRequested", size |-> None],
            [kind |-> "Other", size |-> None] } \cup ResizeEvents

\* vk::SurfaceCapabilitiesKHR as reported by the surface at (re)build time: a
\* current extent that is not the u32::MAX marker lies between the minimum and
\* the maximum extent; max_image_count 0 means no maximum
CapsSet ==
    { c \in [ current_extent   : { << U32_MAX, U32_MAX >>, << 0, 0 >>,
                                   << MaxDim, MaxDim >> },
              min_image_extent : { << 0, 0 >>, << 1, 1 >> },
              max_image_extent : { << MaxDim, MaxDim >> },
              min_image_count  : { 1 },
              max_image_count  : { 0 } ] :
        c.current_extent[1] # U32_MAX =>
            /\ c.min_image_extent[1] <= c.current_extent[1]
            /\ c.min_image_extent[2] <= c.current_extent[2] }

\* the vk::SurfaceFormatKHR the loop of choose_swap_surface_format looks for
PreferredFormat == [format |-> "R8G8B8A8_SRGB", color_space |-> "SRGB_NONLINEAR"]

\* SwapChainSupportDetails::new as the render loop sees it: capabilities vary,
\* the surface keeps reporting one format list and one present-mode list
SupportSet == [ capabilities  : CapsSet,
                formats       : { << PreferredFormat >> },
                present_modes : { << "FIFO" >> } ]

\* VkResult of queue_present: Ok(suboptimal) or an error
PresentResults == { "SUCCESS", "SUBOPTIMAL_KHR", "ERROR_OUT_OF_DATE_KHR",
                    "ERROR_OTHER" }

----------------------------------------------------------------------------
\* Pure functions

Min(a, b) == IF a < b THEN a ELSE b
Max(a, b) == IF a > b THEN a ELSE b

\* (variant: the height is clamped with the bounds of the width)
choose_swap_extent_WidthBounds(caps, width, height) ==
    IF caps.current_extent[1] # U32_MAX
    THEN caps.current_extent
    ELSE << Max(Min(width, caps.max_image_extent[1]), caps.min_image_extent[1]),
            Max(Min(height, caps.max_image_extent[1]), caps.min_image_extent[1]) >>

\* SwapChainSupportDetails::choose_swap_extent
choose_swap_extent(caps, width, height) ==
    IF caps.current_extent[1] # U32_MAX
    THEN caps.current_extent
    ELSE << Max(Min(width, caps.max_image_extent[1]), caps.min_image_extent[1]),
            Max(Min(height, caps.max_image_extent[2]), caps.min_image_extent[2]) >>

\* image count requested by create_swap_chain (u32 arithmetic)
image_count(caps) ==
    LET c == (caps.min_image_count + 1) % (2 ^ WordBits)
    IN  IF caps.max_image_count > 0 /\ c > caps.max_image_count
        THEN caps.max_image_count
        ELSE c

\* addition of 1 to a u32 does not fit (debug builds panic, release builds wrap)
add_overflows(caps) == caps.min_image_count + 1 > U32_MAX

RECURSIVE find_format(_, _)
\* the for loop of choose_swap_surface_format from position i on, then
\* *self.formats.first().unwrap()
find_format(formats, i) ==
    IF i > Len(formats) THEN formats[1]
    ELSE IF /\ formats[i].format = "R8G8B8A8_SRGB"
            /\ formats[i].color_space = "SRGB_NONLINEAR"
         THEN formats[i]
         ELSE find_format(formats, i + 1)

\* (variant: the colour space is not compared)
choose_swap_surface_format_FormatOnly(sup) ==
    LET hits == { i \in 1 .. Len(sup.formats) :
                    sup.formats[i].format = "R8G8B8A8_SRGB" }
    IN  IF hits = {} THEN sup.formats[1]
        ELSE sup.formats[CHOOSE i \in hits : \A j \in hits : i <= j]

\* SwapChainSupportDetails::choose_swap_surface_format
choose_swap_surface_format(sup) == find_format(sup.formats, 1)

RECURSIVE find_mailbox(_, _)
\* the for loop of choose_swap_present_mode from position i on, then FIFO
find_mailbox(modes, i) ==
    IF i > Len(modes) THEN "FIFO"
    ELSE IF modes[i] = "MAILBOX" THEN modes[i]
         ELSE find_mailbox(modes, i + 1)

\* SwapChainSupportDetails::choose_swap_present_mode
choose_swap_present_mode(sup) == find_mailbox(sup.present_modes, 1)

\* the parameters create_swap_chain puts into vk::SwapchainCreateInfoKHR
create_swap_chain(sup, window_size) ==
    [ image_format      |-> choose_swap_surface_format(sup).format,
      image_color_space |-> choose_swap_surface_format(sup).color_space,
      present_mode      |-> choose_swap_present_mode(sup),
      image_extent      |-> choose_swap_extent(sup.capabilities,
                                               window_size[1], window_size[2]),
      min_image_count   |-> image_count(sup.capabilities) ]

\* numbers of images get_swapchain_images may report for a chain created with
\* min_image_count = requested: the driver delivers at least that many
images_delivered(requested) == { Max(requested, n) : n \in 1 .. MaxImages }

\* create_image_views: one view per swapchain image
create_image_views(images) == images

\* (variant: a framebuffer for the first view only)
create_frame_buffers_FirstOnly(views) == Min(views, 1)

\* create_frame_buffers: one framebuffer per image view
create_frame_buffers(views) == views

\* (variant: the render pass is destroyed first)
CleanupOrder_RenderPassFirst == << "render_pass", "framebuffers", "pipeline",
                                   "pipeline_layout", "image_views",
                                   "swapchain" >>

\* objects of one chain generation, in the order cleanup_swap_chain destroys them
CleanupOrder == << "framebuffers", "pipeline", "pipeline_layout",
                   "render_pass", "image_views", "swapchain" >>
\* the same objects in the order recreate_swap_chain creates them
CreateOrder == << "swapchain", "image_views", "render_pass", "pipeline",
                  "pipeline_layout", "framebuffers" >>
ChainObjects == { CleanupOrder[i] : i \in 1 .. Len(CleanupOrder) }

\* which object is created from which: a framebuffer from the render pass and
\* an image view, the pipeline from its layout and the render pass, an image
\* view from an image of the swapchain
References == { << "framebuffers", "render_pass" >>,
                << "framebuffers", "image_views" >>,
                << "pipeline", "pipeline_layout" >>,
                << "pipeline", "render_pass" >>,
                << "image_views", "swapchain" >> }

\* objects created before the creation of `obj` fails ("none": nothing fails)
CreatedBefore(fail) ==
    IF fail = "none" THEN ChainObjects
    ELSE LET k == CHOOSE i \in 1 .. Len(CreateOrder) : CreateOrder[i] = fail
         IN  { CreateOrder[i] : i \in 1 .. (k - 1) }

\* the pipeline and its layout come from one call, create_graphics_pipeline
FailPoints == { "none", "swapchain", "image_views", "render_pass",
                "pipeline", "framebuffers" }

----------------------------------------------------------------------------
VARIABLES
    pc,                 \* position of the CPU thread
    ret,                \* where recreate_swap_chain returns to
    exit,               \* *control_flow == ControlFlow::Exit
    current_frame,      \* VulkanApp.current_frame
    resize,             \* VulkanApp.resize
    swap_chain_extent,  \* VulkanApp.swap_chain_extent
    swap_chain_images,  \* number of images of VulkanApp.swap_chain_images
    live,               \* which chain objects held by the fields are live handles
    fence,              \* in_flight_fences[i] is signaled
    cb,                 \* state of command_buffers[i]
    inflight,           \* submissions pending on the graphics queue, oldest first
    frame_slot,         \* index of the handles draw_frame read at its start
    image_index,        \* local image_index of draw_frame
    result,             \* local result of queue_present in draw_frame
    acquired,           \* what the last acquire_next_image returned
    tick_trace,         \* operations performed so far by the current callback
    retry,              \* retry results reported and not yet followed by a rebuild
    ticks,              \* ticks completed since the start, all without a
                        \* rebuild; -1 once a rebuild ran or MaxTicks is passed
    support,            \* SwapChainSupportDetails the current chain was built from
    create_info,        \* parameters of the SwapchainCreateInfoKHR of the chain
    swap_chain_image_views,   \* length of VulkanApp.swap_chain_image_views
    swap_chain_frame_buffers, \* length of VulkanApp.swap_chain_frame_buffers
    slots_live,         \* the command pool, semaphores and fences are live handles
    image_available,    \* image_available_semaphores[i] is signaled
    render_finished,    \* render_finished_semaphores[i] is signaled
    presents,           \* presents queued whose semaphore wait has not executed
    held                \* images acquired and not yet handed to queue_present

vars == << pc, ret, exit, current_frame, resize, swap_chain_extent,
           swap_chain_images, live, fence, cb, inflight, frame_slot,
           image_index, result, acquired, tick_trace, retry, ticks, support,
           create_info, swap_chain_image_views, swap_chain_frame_buffers,
           slots_live, image_available, render_finished, presents, held >>

app_vars  == << current_frame, resize, swap_chain_extent, swap_chain_images,
                live >>
loc_vars  == << frame_slot, image_index, result, acquired >>
gpu_vars  == << fence, cb, inflight >>
aux_vars  == << ticks, support, create_info >>
obj_vars  == << swap_chain_image_views, swap_chain_frame_buffers, slots_live >>
sync_vars == << image_available, render_finished, presents, held >>

InitialCb == [state |-> "initial", image |-> 0]

\* VulkanApp::new: the initial build succeeded (a failure aborts startup)
\* VulkanApp::new: the state after construction, on a surface reporting one
\* of Supports
new(Supports) ==
    /\ pc = "idle"
    /\ ret = "return"
    /\ exit = FALSE
    /\ current_frame = 0
    /\ resize = None
    /\ \E sup \in Supports :
         /\ support = sup
         /\ create_info = create_swap_chain(sup, << WIDTH, HEIGHT >>)
         /\ swap_chain_extent = create_info.image_extent
         /\ swap_chain_extent[1] > 0 /\ swap_chain_extent[2] > 0
         /\ swap_chain_images \in images_delivered(create_info.min_image_count)
    /\ ticks = 0
    /\ live = [o \in ChainObjects |-> TRUE]
    /\ fence = [s \in Slots |-> TRUE]
    /\ cb = [s \in Slots |-> InitialCb]
    /\ inflight = << >>
    /\ frame_slot = 0
    /\ image_index = 0
    /\ result = "SUCCESS"
    /\ acquired = "none"
    /\ tick_trace = << >>
    /\ retry = {}
    /\ swap_chain_image_views = create_image_views(swap_chain_images)
    /\ swap_chain_frame_buffers = create_frame_buffers(swap_chain_image_views)
    /\ slots_live = TRUE
    /\ image_available = [s \in Slots |-> FALSE]
    /\ render_finished = [s \in Slots |-> FALSE]
    /\ presents = << >>
    /\ held = {}

\* VulkanApp::new on any surface of SupportSet
Init == new(SupportSet)

----------------------------------------------------------------------------
\* Device operations

\* (variant: the wait returns at once)
device_wait_idle_NoWait == TRUE

\* device_wait_idle returns once no queue operation is pending on any queue:
\* no submission and no semaphore wait of a present
device_wait_idle == inflight = << >> /\ presents = << >>

\* (variant: the fence wait returns at once)
wait_for_fences_NoWait(s) == TRUE

\* wait_for_fences(&[in_flight_fence], true, u64::MAX) returns once signaled
wait_for_fences(s) == fence[s]

\* handles draw_frame takes for this tick: all at index current_frame
command_buffer == frame_slot
image_available_semaphore == frame_slot
render_finished_semaphore == frame_slot
in_flight_fence == frame_slot

\* the buffer record_command_buffer records into: command_buffers.first()
record_target == 0

\* submissions still pending that execute command buffer b
PendingOn(b) == { i \in 1 .. Len(inflight) : inflight[i].buffer = b }

\* (variant: the command buffers are freed and allocated again as well)
cleanup_swap_chain_FreesBuffers ==
    /\ live' = [o \in ChainObjects |-> FALSE]
    /\ cb' = [s \in Slots |-> InitialCb]

\* cleanup_swap_chain: destroys every object of the current generation;
\* command buffers recorded against its framebuffers become invalid
cleanup_swap_chain ==
    /\ live' = [o \in ChainObjects |-> FALSE]
    /\ cb' = [s \in Slots |->
                IF cb[s].state = "executable"
                THEN [cb[s] EXCEPT !.state = "invalid"] ELSE cb[s]]

Performed(op) == tick_trace' = Append(tick_trace, op)

----------------------------------------------------------------------------
\* VulkanApp::run: the event-loop callback

\* the callback is entered with one event; ControlFlow::Exit is sticky
callback(Evs) ==
    /\ pc = "idle"
    /\ \E ev \in Evs :
         /\ resize' = IF ev.kind = "Resized" THEN ev.size ELSE None
         /\ pc' = IF ev.kind = "CloseRequested" THEN "close_wait" ELSE "wait"
    /\ tick_trace' = << >>
    /\ frame_slot' = current_frame
    /\ UNCHANGED << ret, exit, current_frame, swap_chain_extent,
                    swap_chain_images, live, image_index, result, acquired,
                    retry >>
    /\ UNCHANGED gpu_vars
    /\ UNCHANGED aux_vars
    /\ UNCHANGED obj_vars
    /\ UNCHANGED sync_vars

\* the callback on any event the window can deliver
Callback == callback(Events)

\* WindowEvent::CloseRequested: device_wait_idle, then ControlFlow::Exit
CloseRequested ==
    /\ pc = "close_wait"
    /\ device_wait_idle
    /\ exit' = TRUE
    /\ pc' = "wait"
    /\ Performed("device_wait_idle")
    /\ UNCHANGED << ret, retry >>
    /\ UNCHANGED app_vars
    /\ UNCHANGED loc_vars
    /\ UNCHANGED gpu_vars
    /\ UNCHANGED aux_vars
    /\ UNCHANGED obj_vars
    /\ UNCHANGED sync_vars

----------------------------------------------------------------------------
\* VulkanApp::draw_frame

\* (variant: the fence is reset right after the wait, before the acquire)
WaitForFences_ResetEarly ==
    /\ pc = "wait"
    /\ wait_for_fences(in_flight_fence)
    /\ fence' = [fence EXCEPT ![in_flight_fence] = FALSE]
    /\ pc' = "acquire"
    /\ Performed("wait_for_fences")
    /\ UNCHANGED << ret, exit, retry, cb, inflight >>
    /\ UNCHANGED app_vars
    /\ UNCHANGED loc_vars
    /\ UNCHANGED aux_vars
    /\ UNCHANGED obj_vars
    /\ UNCHANGED sync_vars

\* wait_for_fences on the slot's fence (blocks until it is signaled)
WaitForFences ==
    /\ pc = "wait"
    /\ wait_for_fences(in_flight_fence)
    /\ pc' = "acquire"
    /\ Performed("wait_for_fences")
    /\ UNCHANGED << ret, exit, retry >>
    /\ UNCHANGED app_vars
    /\ UNCHANGED loc_vars
    /\ UNCHANGED gpu_vars
    /\ UNCHANGED aux_vars
    /\ UNCHANGED obj_vars
    /\ UNCHANGED sync_vars

\* (variant: the out-of-date arm goes on with the frame after the recreate)
acquire_out_of_date_continues_Records == "reset"

\* (variant: the out-of-date arm falls through to the end of draw_frame)
acquire_out_of_date_continues_FallThrough == "advance"

\* where draw_frame continues after the recreate of the out-of-date arm of
\* the acquire match: `return`
acquire_out_of_date_continues == "return"

\* (variant: a suboptimal acquire recreates and returns like out-of-date)
AcquireOk_SuboptimalRecreates ==
    /\ pc = "acquire"
    /\ \E i \in 0 .. (swap_chain_images - 1), suboptimal \in BOOLEAN :
         /\ \A k \in 1 .. Len(presents) : presents[k].image # i
         /\ image_index' = i
         /\ held' = held \cup { i }
         /\ acquired' = IF suboptimal THEN "SUBOPTIMAL_KHR" ELSE "SUCCESS"
         /\ retry' = IF suboptimal THEN retry \cup { "acquire_suboptimal" }
                                   ELSE retry
         /\ pc' = IF suboptimal THEN "rc_wait" ELSE "reset"
         /\ ret' = IF suboptimal THEN "return" ELSE ret
    /\ image_available' =
          [image_available EXCEPT ![image_available_semaphore] = TRUE]
    /\ Performed("acquire")
    /\ UNCHANGED << exit, frame_slot, result >>
    /\ UNCHANGED app_vars
    /\ UNCHANGED gpu_vars
    /\ UNCHANGED aux_vars
    /\ UNCHANGED obj_vars
    /\ UNCHANGED << render_finished, presents >>

\* acquire_next_image returned Ok((image_index, suboptimal)): the flag is
\* dropped.  The image is one the presentation engine does not hold, and the
\* slot's image-available semaphore is signaled.
AcquireOk ==
    /\ pc = "acquire"
    /\ \E i \in 0 .. (swap_chain_images - 1), suboptimal \in BOOLEAN :
         /\ \A k \in 1 .. Len(presents) : presents[k].image # i
         /\ image_index' = i
         /\ held' = held \cup { i }
         /\ acquired' = IF suboptimal THEN "SUBOPTIMAL_KHR" ELSE "SUCCESS"
         /\ retry' = IF suboptimal THEN retry \cup { "acquire_suboptimal" }
                                   ELSE retry
    /\ image_available' =
          [image_available EXCEPT ![image_available_semaphore] = TRUE]
    /\ pc' = "reset"
    /\ Performed("acquire")
    /\ UNCHANGED << ret, exit, frame_slot, result >>
    /\ UNCHANGED app_vars
    /\ UNCHANGED gpu_vars
    /\ UNCHANGED aux_vars
    /\ UNCHANGED obj_vars
    /\ UNCHANGED << render_finished, presents >>

\* acquire_next_image returned ERROR_OUT_OF_DATE_KHR: recreate, then return
AcquireOutOfDate ==
    /\ pc = "acquire"
    /\ acquired' = "ERROR_OUT_OF_DATE_KHR"
    /\ retry' = retry \cup { "acquire_out_of_date" }
    /\ pc' = "rc_wait"
    /\ ret' = acquire_out_of_date_continues
    /\ Performed("acquire")
    /\ UNCHANGED << exit, frame_slot, image_index, result >>
    /\ UNCHANGED app_vars
    /\ UNCHANGED gpu_vars
    /\ UNCHANGED aux_vars
    /\ UNCHANGED obj_vars
    /\ UNCHANGED sync_vars

\* (variant: every acquire error is handled like out-of-date)
AcquireError_Retried ==
    /\ pc = "acquire"
    /\ acquired' = "ERROR_OTHER"
    /\ pc' = "rc_wait"
    /\ ret' = "return"
    /\ Performed("acquire")
    /\ UNCHANGED << exit, frame_slot, image_index, result, retry >>
    /\ UNCHANGED app_vars
    /\ UNCHANGED gpu_vars
    /\ UNCHANGED aux_vars
    /\ UNCHANGED obj_vars
    /\ UNCHANGED sync_vars

\* acquire_next_image returned any other error: panic
AcquireError ==
    /\ pc = "acquire"
    /\ acquired' = "ERROR_OTHER"
    /\ pc' = "panic"
    /\ Performed("acquire")
    /\ UNCHANGED << ret, exit, frame_slot, image_index, result, retry >>
    /\ UNCHANGED app_vars
    /\ UNCHANGED gpu_vars
    /\ UNCHANGED aux_vars
    /\ UNCHANGED obj_vars
    /\ UNCHANGED sync_vars

\* reset_fences on the slot's fence, reset_command_buffer on the slot's buffer
ResetFenceAndBuffer ==
    /\ pc = "reset"
    /\ fence' = [fence EXCEPT ![in_flight_fence] = FALSE]
    /\ cb' = [cb EXCEPT ![command_buffer] = InitialCb]
    /\ pc' = "record"
    /\ tick_trace' = tick_trace \o << "reset_fences", "reset_command_buffer" >>
    /\ UNCHANGED << ret, exit, retry, inflight >>
    /\ UNCHANGED app_vars
    /\ UNCHANGED loc_vars
    /\ UNCHANGED aux_vars
    /\ UNCHANGED obj_vars
    /\ UNCHANGED sync_vars

\* record_command_buffer(image_index): begin (implicit reset), render pass on
\* swap_chain_frame_buffers[image_index], draw, end.  Recording into a buffer
\* that a pending submission executes clobbers that submission.
RecordCommandBuffer ==
    /\ pc = "record"
    /\ cb' = [cb EXCEPT ![record_target] =
                 [state |-> "executable", image |-> image_index]]
    /\ inflight' = [i \in 1 .. Len(inflight) |->
                      IF inflight[i].buffer = record_target
                      THEN [inflight[i] EXCEPT !.clobbered = TRUE]
                      ELSE inflight[i]]
    /\ pc' = "submit"
    /\ Performed("record")
    /\ UNCHANGED << ret, exit, retry, fence >>
    /\ UNCHANGED app_vars
    /\ UNCHANGED loc_vars
    /\ UNCHANGED aux_vars
    /\ UNCHANGED obj_vars
    /\ UNCHANGED sync_vars

\* queue_submit of the slot's buffer, signalling the slot's fence on completion
QueueSubmit ==
    /\ pc = "submit"
    /\ inflight' = Append(inflight, [slot      |-> in_flight_fence,
                                      wait      |-> image_available_semaphore,
                                      signal    |-> render_finished_semaphore,
                                      buffer    |-> command_buffer,
                                      recorded  |-> cb[command_buffer],
                                      clobbered |-> FALSE])
    /\ pc' = "present"
    /\ Performed("submit")
    /\ UNCHANGED << ret, exit, retry, fence, cb >>
    /\ UNCHANGED app_vars
    /\ UNCHANGED loc_vars
    /\ UNCHANGED aux_vars
    /\ UNCHANGED obj_vars
    /\ UNCHANGED sync_vars

\* queue_submit of a buffer that is not executable may instead lose the device
QueueSubmitError ==
    /\ pc = "submit"
    /\ cb[command_buffer].state # "executable"
    /\ pc' = "panic"
    /\ Performed("submit")
    /\ UNCHANGED << ret, exit, retry >>
    /\ UNCHANGED app_vars
    /\ UNCHANGED loc_vars
    /\ UNCHANGED gpu_vars
    /\ UNCHANGED aux_vars
    /\ UNCHANGED obj_vars
    /\ UNCHANGED sync_vars

\* (variant: the `if is_suboptimal` guard of the first arm is missing)
present_needs_recreate_AnyOk(r) == TRUE

\* (variant: a suboptimal present is taken as plain success)
present_needs_recreate_OutOfDateOnly(r) == r = "ERROR_OUT_OF_DATE_KHR"

\* which results of queue_present call recreate_swap_chain
present_needs_recreate(r) == r \in { "SUBOPTIMAL_KHR", "ERROR_OUT_OF_DATE_KHR" }

\* (variant: the present arms return like the acquire arm does)
present_recreate_continues_Return == "return"

\* where draw_frame continues after the recreate of a present arm: the
\* resize check that follows the match
present_recreate_continues == "resize_check"

\* queue_present and the match on its result; unless the call fails outright
\* the wait on the render-finished semaphore is queued
queue_present(Results) ==
    /\ pc = "present"
    /\ \E r \in Results :
         /\ result' = r
         /\ IF r = "ERROR_OTHER"
            THEN pc' = "panic" /\ UNCHANGED << ret, retry >>
            ELSE IF present_needs_recreate(r)
            THEN /\ pc' = "rc_wait"
                 /\ ret' = present_recreate_continues
                 /\ retry' = retry \cup
                      { IF r = "SUBOPTIMAL_KHR" THEN "present_suboptimal"
                                               ELSE "present_out_of_date" }
            ELSE /\ pc' = "resize_check"
                 /\ retry' = IF r = "SUCCESS" THEN retry
                             ELSE retry \cup { "present_suboptimal" }
                 /\ UNCHANGED ret
         /\ presents' = IF r = "ERROR_OTHER" THEN presents
                         ELSE Append(presents,
                                     [wait  |-> render_finished_semaphore,
                                      image |-> image_index])
    /\ Performed("present")
    /\ UNCHANGED << exit, frame_slot, image_index, acquired >>
    /\ UNCHANGED app_vars
    /\ UNCHANGED gpu_vars
    /\ UNCHANGED aux_vars
    /\ held' = held \ { image_index }
    /\ UNCHANGED obj_vars
    /\ UNCHANGED << image_available, render_finished >>

\* queue_present with every result the call can return
QueuePresent == queue_present(PresentResults)

\* if self.resize.is_some() { self.recreate_swap_chain(); }
ResizeCheck ==
    /\ pc = "resize_check"
    /\ IF resize # None
       THEN pc' = "rc_wait" /\ ret' = "advance"
       ELSE pc' = "advance" /\ UNCHANGED ret
    /\ UNCHANGED << exit, retry, tick_trace >>
    /\ UNCHANGED app_vars
    /\ UNCHANGED loc_vars
    /\ UNCHANGED gpu_vars
    /\ UNCHANGED aux_vars
    /\ UNCHANGED obj_vars
    /\ UNCHANGED sync_vars

\* (variant: stops at the last slot instead of wrapping)
next_frame_Saturates(frame, frame_size) ==
    IF frame + 1 >= frame_size THEN frame ELSE frame + 1

\* (self.current_frame + 1) % frame_size
next_frame(frame, frame_size) == (frame + 1) % frame_size

\* self.current_frame = (self.current_frame + 1) % frame_size; callback returns
AdvanceFrame ==
    /\ pc = "advance"
    /\ current_frame' = next_frame(current_frame, MAX_FRAMES_IN_FLIGHT)
    /\ ticks' = IF ticks >= 0 /\ ticks < MaxTicks THEN ticks + 1 ELSE -1
    /\ UNCHANGED << support, create_info >>
    /\ pc' = "idle"
    /\ Performed("advance")
    /\ image_index' = 0
    /\ UNCHANGED << ret, exit, retry, resize, swap_chain_extent,
                    swap_chain_images, live, frame_slot, result, acquired >>
    /\ UNCHANGED gpu_vars
    /\ UNCHANGED obj_vars
    /\ UNCHANGED sync_vars

----------------------------------------------------------------------------
\* VulkanApp::recreate_swap_chain

\* device_wait_idle at the start of recreate_swap_chain
RecreateWaitIdle ==
    /\ pc = "rc_wait"
    /\ device_wait_idle
    /\ pc' = "rc_cleanup"
    /\ Performed("recreate_swap_chain")
    /\ UNCHANGED << ret, exit, retry >>
    /\ UNCHANGED app_vars
    /\ UNCHANGED loc_vars
    /\ UNCHANGED gpu_vars
    /\ ticks' = -1
    /\ UNCHANGED << support, create_info >>
    /\ UNCHANGED obj_vars
    /\ UNCHANGED sync_vars

\* self.cleanup_swap_chain()
RecreateCleanup ==
    /\ pc = "rc_cleanup"
    /\ cleanup_swap_chain
    /\ pc' = "rc_create"
    /\ UNCHANGED << ret, exit, retry, tick_trace, current_frame, resize,
                    swap_chain_extent, swap_chain_images, fence, inflight >>
    /\ UNCHANGED loc_vars
    /\ UNCHANGED aux_vars
    /\ UNCHANGED obj_vars
    /\ UNCHANGED sync_vars

\* (variant: the pending resize is not looked at)
recreate_size_IgnoresResize == swap_chain_extent

\* (variant: the fallback passes height and width the wrong way round)
recreate_size_Swapped ==
    IF resize # None THEN resize
    ELSE << swap_chain_extent[2], swap_chain_extent[1] >>

\* the size handed to create_swap_chain
recreate_size == IF resize # None THEN resize ELSE swap_chain_extent

\* create_swap_chain .. create_frame_buffers with the support details the
\* surface reports now, one of Supports; every creation is unwrapped, so a
\* failure panics with the fields assigned so far ("overflow": the debug
\* build's panic on min_image_count + 1)
recreate_build(Supports) ==
    /\ pc = "rc_create"
    /\ \E sup \in Supports, fail \in FailPoints \cup { "overflow" } :
         /\ fail = "overflow" => add_overflows(sup.capabilities)
         /\ IF fail \in { "overflow", "swapchain" }
            THEN /\ live' = [o \in ChainObjects |-> FALSE]
                 /\ UNCHANGED << swap_chain_extent, swap_chain_images,
                                 support, create_info,
                                 swap_chain_image_views,
                                 swap_chain_frame_buffers >>
            ELSE /\ live' = [o \in ChainObjects |-> o \in CreatedBefore(fail)]
                 /\ support' = sup
                 /\ create_info' = create_swap_chain(sup, recreate_size)
                 /\ swap_chain_extent' = create_info'.image_extent
                 /\ swap_chain_images' \in
                       images_delivered(create_info'.min_image_count)
                 /\ swap_chain_image_views' =
                       IF fail = "image_views" THEN swap_chain_image_views
                       ELSE create_image_views(swap_chain_images')
                 /\ swap_chain_frame_buffers' =
                       IF fail = "none"
                       THEN create_frame_buffers(swap_chain_image_views')
                       ELSE swap_chain_frame_buffers
         /\ IF fail = "none"
            THEN /\ pc' = IF ret = "return" THEN "idle" ELSE ret
                 /\ retry' = {}
            ELSE /\ pc' = "panic"
                 /\ UNCHANGED retry
    /\ UNCHANGED << ret, exit, tick_trace, current_frame, resize, ticks,
                    slots_live >>
    /\ UNCHANGED loc_vars
    /\ UNCHANGED gpu_vars
    /\ UNCHANGED sync_vars

\* the rebuild inside the render loop
RecreateBuild == recreate_build(SupportSet)

----------------------------------------------------------------------------
\* Leaving the loop and impl Drop for VulkanApp

\* with ControlFlow::Exit set, the event loop stops calling the callback and
\* drops the closure that owns the VulkanApp
ExitLoop ==
    /\ pc = "idle"
    /\ exit
    /\ pc' = "drop"
    /\ UNCHANGED << ret, exit, retry, tick_trace >>
    /\ UNCHANGED app_vars
    /\ UNCHANGED loc_vars
    /\ UNCHANGED gpu_vars
    /\ UNCHANGED aux_vars
    /\ UNCHANGED obj_vars
    /\ UNCHANGED sync_vars

\* a panic unwinds out of the callback and drops the VulkanApp
Unwind ==
    /\ pc = "panic"
    /\ pc' = "drop"
    /\ UNCHANGED << ret, exit, retry, tick_trace >>
    /\ UNCHANGED app_vars
    /\ UNCHANGED loc_vars
    /\ UNCHANGED gpu_vars
    /\ UNCHANGED aux_vars
    /\ UNCHANGED obj_vars
    /\ UNCHANGED sync_vars

\* drop: cleanup_swap_chain, then the command pool, semaphores, fences,
\* the device, the surface and the instance are destroyed
Drop ==
    /\ pc = "drop"
    /\ cleanup_swap_chain
    /\ slots_live' = FALSE
    /\ pc' = "dropped"
    /\ UNCHANGED << ret, exit, retry, tick_trace, current_frame, resize,
                    swap_chain_extent, swap_chain_images, fence, inflight,
                    swap_chain_image_views, swap_chain_frame_buffers >>
    /\ UNCHANGED loc_vars
    /\ UNCHANGED aux_vars
    /\ UNCHANGED sync_vars

----------------------------------------------------------------------------
\* The graphics queue

\* the oldest pending submission executes once its wait semaphore is
\* signaled: it unsignals that semaphore and, on completion, signals its
\* signal semaphore and its fence
GpuComplete ==
    /\ pc # "dropped"
    /\ inflight # << >>
    /\ image_available[Head(inflight).wait]
    /\ image_available' = [image_available EXCEPT ![Head(inflight).wait] = FALSE]
    /\ render_finished' = [render_finished EXCEPT ![Head(inflight).signal] = TRUE]
    /\ fence' = [fence EXCEPT ![Head(inflight).slot] = TRUE]
    /\ inflight' = Tail(inflight)
    /\ UNCHANGED << pc, ret, exit, retry, tick_trace, cb, presents, held >>
    /\ UNCHANGED app_vars
    /\ UNCHANGED loc_vars
    /\ UNCHANGED aux_vars
    /\ UNCHANGED obj_vars

----------------------------------------------------------------------------
\* The presentation engine

\* the oldest queued present executes its semaphore wait once the semaphore is
\* signaled: it unsignals the semaphore and hands the image to the display,
\* after which the image can be acquired again
PresentExecute ==
    /\ pc # "dropped"
    /\ presents # << >>
    /\ render_finished[Head(presents).wait]
    /\ render_finished' = [render_finished EXCEPT ![Head(presents).wait] = FALSE]
    /\ presents' = Tail(presents)
    /\ UNCHANGED << pc, ret, exit, retry, tick_trace, image_available,
                    held >>
    /\ UNCHANGED app_vars
    /\ UNCHANGED loc_vars
    /\ UNCHANGED gpu_vars
    /\ UNCHANGED aux_vars
    /\ UNCHANGED obj_vars

----------------------------------------------------------------------------
Next ==
    \/ Callback
    \/ CloseRequested
    \/ WaitForFences
    \/ AcquireOk
    \/ AcquireOutOfDate
    \/ AcquireError
    \/ ResetFenceAndBuffer
    \/ RecordCommandBuffer
    \/ QueueSubmit
    \/ QueueSubmitError
    \/ QueuePresent
    \/ ResizeCheck
    \/ AdvanceFrame
    \/ RecreateWaitIdle
    \/ RecreateCleanup
    \/ RecreateBuild
    \/ ExitLoop
    \/ Unwind
    \/ Drop
    \/ GpuComplete
    \/ PresentExecute

Spec == Init /\ [][Next]_vars

\* the CPU thread keeps running and the GPU completes every submission
LiveSpec == Spec /\ WF_vars(GpuComplete) /\ WF_vars(WaitForFences)

----------------------------------------------------------------------------
\* Parameter selection: recreate_swap_chain called in a row on a surface that
\* reports a wide range of support details

Extents == (0 .. FnDim) \X (0 .. FnDim)

\* capability records whose extents vary: minimum <= maximum on each axis, the
\* current extent either the u32::MAX marker or between the two
ExtentCaps ==
    { c \in [ current_extent   : { << U32_MAX, U32_MAX >> } \cup Extents,
              min_image_extent : Extents,
              max_image_extent : Extents,
              min_image_count  : { 1 },
              max_image_count  : { 0 } ] :
        /\ c.min_image_extent[1] <= c.max_image_extent[1]
        /\ c.min_image_extent[2] <= c.max_image_extent[2]
        /\ c.current_extent[1] # U32_MAX =>
              /\ c.min_image_extent[1] <= c.current_extent[1]
              /\ c.current_extent[1] <= c.max_image_extent[1]
              /\ c.min_image_extent[2] <= c.current_extent[2]
              /\ c.current_extent[2] <= c.max_image_extent[2] }

\* capability records whose image counts vary: at least one image, and a
\* maximum that is 0 (none) or not below the minimum
CountCaps ==
    { c \in [ current_extent   : { << U32_MAX, U32_MAX >> },
              min_image_extent : { << 0, 0 >> },
              max_image_extent : { << FnDim, FnDim >> },
              min_image_count  : { 1, 2, U32_MAX - 1, U32_MAX },
              max_image_count  : { 0, 2, 3, U32_MAX } ] :
        c.max_image_count > 0 => c.min_image_count <= c.max_image_count }

\* non-empty lists of surface formats, up to MaxFormats long
FormatLists ==
    UNION { [ 1 .. k -> [ format      : { "R8G8B8A8_SRGB", "B8G8R8A8_UNORM" },
                          color_space : { "SRGB_NONLINEAR",
                                          "DISPLAY_P3_NONLINEAR_EXT" } ] ] :
            k \in 1 .. MaxFormats }

\* lists of present modes; FIFO is always among them
ModeLists == { << "FIFO" >>, << "FIFO", "MAILBOX" >>, << "IMMEDIATE", "FIFO" >> }

\* what SwapChainSupportDetails::new may return in BuildSpec
WideSupport ==
    [ capabilities  : ExtentCaps \cup CountCaps,
      formats       : { << PreferredFormat >> },
      present_modes : { << "FIFO" >> } ]
    \cup
    [ capabilities  : { c \in CountCaps : c.min_image_count = 1
                                          /\ c.max_image_count = 0 },
      formats       : FormatLists,
      present_modes : ModeLists ]

\* what the surface may report instead from one call to the next: any size
\* up to (FnDim, FnDim)
RebuildSupport ==
    { [ capabilities  |-> [ current_extent   |-> << U32_MAX, U32_MAX >>,
                            min_image_extent |-> << 0, 0 >>,
                            max_image_extent |-> << FnDim, FnDim >>,
                            min_image_count  |-> 1,
                            max_image_count  |-> 0 ],
        formats       |-> << PreferredFormat >>,
        present_modes |-> << "FIFO" >> ] }

\* the operation was performed in this tick / how often
InTick(op) == \E i \in 1 .. Len(tick_trace) : tick_trace[i] = op
Count(op) == Cardinality({ i \in 1 .. Len(tick_trace) : tick_trace[i] = op })

\* VulkanApp::new on such a surface, then a resize request or none
BuildInit ==
    /\ pc = "harness"
    /\ ret = "harness"
    /\ exit = FALSE
    /\ current_frame = 0
    /\ resize \in { None } \cup { Some(e[1], e[2]) : e \in Extents }
    /\ \E sup \in WideSupport :
         /\ support = sup
         /\ create_info = create_swap_chain(sup, << WIDTH, HEIGHT >>)
         /\ swap_chain_extent = create_info.image_extent
         /\ swap_chain_images \in images_delivered(create_info.min_image_count)
    /\ ticks = 0
    /\ live = [o \in ChainObjects |-> TRUE]
    /\ fence = [s \in Slots |-> TRUE]
    /\ cb = [s \in Slots |-> InitialCb]
    /\ inflight = << >>
    /\ frame_slot = 0
    /\ image_index = 0
    /\ result = "SUCCESS"
    /\ acquired = "none"
    /\ tick_trace = << >>
    /\ retry = {}
    /\ swap_chain_image_views = create_image_views(swap_chain_images)
    /\ swap_chain_frame_buffers = create_frame_buffers(swap_chain_image_views)
    /\ slots_live = TRUE
    /\ image_available = [s \in Slots |-> FALSE]
    /\ render_finished = [s \in Slots |-> FALSE]
    /\ presents = << >>
    /\ held = {}

\* self.recreate_swap_chain(), again after it returned
HarnessCall ==
    /\ pc = "harness"
    /\ Count("recreate_swap_chain") < MaxRebuilds
    /\ pc' = "rc_wait"
    /\ UNCHANGED << ret, exit, retry, tick_trace >>
    /\ UNCHANGED app_vars
    /\ UNCHANGED loc_vars
    /\ UNCHANGED gpu_vars
    /\ UNCHANGED aux_vars
    /\ UNCHANGED obj_vars
    /\ UNCHANGED sync_vars

\* the rebuild on a surface that reports the same details or other ones
RecreateBuildWide == recreate_build({ support } \cup RebuildSupport)

BuildNext ==
    \/ HarnessCall
    \/ RecreateWaitIdle
    \/ RecreateCleanup
    \/ RecreateBuildWide

BuildSpec == BuildInit /\ [][BuildNext]_vars

----------------------------------------------------------------------------
\* Rendering on a surface whose swapchain has FrameImages images: frame after
\* frame with no resize and no close request; an acquire may report
\* out-of-date, every present succeeds

FrameSupport ==
    [ capabilities  |-> [ current_extent   |-> << MaxDim, MaxDim >>,
                          min_image_extent |-> << 1, 1 >>,
                          max_image_extent |-> << MaxDim, MaxDim >>,
                          min_image_count  |-> FrameImages - 1,
                          max_image_count  |-> 0 ],
      formats       |-> << PreferredFormat >>,
      present_modes |-> << "FIFO" >> ]

FrameInit == new({ FrameSupport })

\* the callback on an event other than a resize or a close request
FrameCallback == callback({ [kind |-> "Other", size |-> None] })

\* queue_present returning Ok(false)
FramePresent == queue_present({ "SUCCESS" })

\* the rebuild on that surface
FrameRecreateBuild == recreate_build({ FrameSupport })

FrameNext ==
    \/ FrameCallback
    \/ WaitForFences
    \/ AcquireOk
    \/ AcquireOutOfDate
    \/ RecreateWaitIdle
    \/ RecreateCleanup
    \/ FrameRecreateBuild
    \/ Unwind
    \/ Drop
    \/ ResetFenceAndBuffer
    \/ RecordCommandBuffer
    \/ QueueSubmit
    \/ FramePresent
    \/ ResizeCheck
    \/ AdvanceFrame
    \/ GpuComplete
    \/ PresentExecute

FrameSpec == FrameInit /\ [][FrameNext]_vars

----------------------------------------------------------------------------
\* Properties

\* C1: when the loop exits after a close request and Drop starts destroying
\* objects, every submission draw_frame issued has completed.
C1_TeardownAfterDrain == [][ExitLoop => inflight = << >>]_vars

\* C2: when record_command_buffer begins recording, no pending submission
\* executes the buffer it records into.
C2_RecordTargetNotPending ==
    [][RecordCommandBuffer => PendingOn(record_target) = {}]_vars

\* C3: the buffer handed to queue_submit is the current slot's buffer and it
\* holds the recording made in this tick for the acquired image index.
C3_SubmitsThisTicksRecording ==
    [][QueueSubmit =>
         /\ command_buffer = current_frame
         /\ cb[command_buffer].state = "executable"
         /\ cb[command_buffer].image = image_index]_vars

\* C4: when recreate_swap_chain starts destroying the old generation, no
\* submission is pending, whichever trigger started the rebuild.
C4_RebuildDestroysWhenIdle == pc = "rc_cleanup" => inflight = << >>

\* a rebuild is about to destroy the chain in a tick that has submitted work
C4_Witness == pc = "rc_cleanup" /\ InTick("submit") /\ ret = "advance"

\* C5: after acquire reports out-of-date the tick only rebuilds: the slot's
\* fence stays signaled, nothing is reset, recorded, submitted or presented,
\* current_frame is not advanced, and the tick ends on the same slot index.
C5_OutOfDateTickOnlyRebuilds ==
    (InTick("acquire") /\ acquired = "ERROR_OUT_OF_DATE_KHR") =>
        /\ fence[frame_slot]
        /\ ~ InTick("reset_fences")
        /\ ~ InTick("reset_command_buffer")
        /\ ~ InTick("record")
        /\ ~ InTick("submit")
        /\ ~ InTick("present")
        /\ ~ InTick("advance")
        /\ current_frame = frame_slot
        /\ pc \in { "rc_wait", "rc_cleanup", "rc_create", "idle", "panic",
                    "drop", "dropped" }
        /\ (pc = "idle" => Count("recreate_swap_chain") = 1)

\* the tick that got out-of-date from acquire has rebuilt and returned
C5_Witness ==
    /\ pc = "idle"
    /\ InTick("acquire")
    /\ acquired = "ERROR_OUT_OF_DATE_KHR"
    /\ InTick("recreate_swap_chain")

\* C6 (as stated): at every acquire, every out-of-date or suboptimal result
\* reported by an earlier acquire or present has been followed by a rebuild.
C6_EveryRetryRebuilt == pc = "acquire" => retry = {}

\* C6 (amended): at every acquire, every out-of-date result of an earlier
\* acquire and every suboptimal or out-of-date result of an earlier present
\* has been followed by a rebuild; a suboptimal acquire alone is not.
C6_RetryRebuiltExceptSuboptimalAcquire ==
    pc = "acquire" => retry \subseteq { "acquire_suboptimal" }

\* the tick after a suboptimal present reaches its acquire, rebuild done
C6_Witness ==
    /\ pc = "acquire"
    /\ result = "SUBOPTIMAL_KHR"
    /\ retry = {}
    /\ live = [o \in ChainObjects |-> TRUE]

\* C7: a tick whose present reports suboptimal or out-of-date still advances
\* current_frame by one modulo N, and the rebuild it triggers has completed
\* before the next acquire.
C7_PresentRetryAdvancesAndRebuilds ==
    /\ (pc = "idle" /\ InTick("present") /\ present_needs_recreate(result)) =>
          /\ current_frame = (frame_slot + 1) % MAX_FRAMES_IN_FLIGHT
          /\ Count("advance") = 1
          /\ InTick("recreate_swap_chain")
    /\ (pc \in { "idle", "wait", "acquire" }) =>
          retry \cap { "present_suboptimal", "present_out_of_date" } = {}

\* a tick whose present reported out-of-date has ended
C7_Witness ==
    /\ pc = "idle"
    /\ InTick("present")
    /\ result = "ERROR_OUT_OF_DATE_KHR"
    /\ current_frame = 1

\* C8: recreate_swap_chain is called at most once per draw_frame.
C8_AtMostOneRebuildPerTick == Count("recreate_swap_chain") <= 1

\* every unsignaled fence is backed by the submission that will signal it, or
\* by the tick that reset it and has not submitted yet
FenceBacked ==
    \A s \in Slots :
        ~ fence[s] =>
            \/ \E i \in 1 .. Len(inflight) : inflight[i].slot = s
            \/ frame_slot = s /\ pc \in { "record", "submit" }
            \/ pc \in { "panic", "drop", "dropped" }

\* C9: fences start signaled and are reset only by a tick that goes on to
\* submit, so every wait_for_fences at the start of a tick returns, given
\* that the GPU completes every submission.
C9_FenceWaitReturns == []FenceBacked /\ ((pc = "wait") ~> (pc # "wait"))

\* the wait of the tick that follows an out-of-date early return has returned
C9_Witness ==
    /\ pc = "acquire"
    /\ acquired = "ERROR_OUT_OF_DATE_KHR"
    /\ tick_trace = << "wait_for_fences" >>

\* C10: at most one pending submission per slot, hence at most N in total.
C10_OnePendingPerSlot ==
    /\ \A s \in Slots :
          Cardinality({ i \in 1 .. Len(inflight) : inflight[i].slot = s }) <= 1
    /\ Len(inflight) <= MAX_FRAMES_IN_FLIGHT

\* every slot has a submission pending
C10_Witness == Len(inflight) = MAX_FRAMES_IN_FLIGHT

\* number of slots whose fence is unsignaled
Unsignaled == Cardinality({ s \in Slots : ~ fence[s] })

\* the thread has reset the slot's fence and the submission that will signal
\* it is not on the queue (yet, or ever if the thread panicked on the way)
ResetNotSubmitted == pc \in { "record", "submit", "panic", "drop", "dropped" }

\* C11 (as stated): in every state the number of unsignaled fences is at most
\* N and at most the number of submissions issued and not yet completed.
C11_UnsignaledAtMostPending ==
    /\ Unsignaled <= MAX_FRAMES_IN_FLIGHT
    /\ Unsignaled <= Len(inflight)

\* C11 (amended): the number of unsignaled fences is at most N and at most
\* the number of pending submissions, plus one while the current tick is
\* between its reset_fences and its queue_submit.
C11_UnsignaledAtMostPendingPlusCurrent ==
    /\ Unsignaled <= MAX_FRAMES_IN_FLIGHT
    /\ Unsignaled <= Len(inflight) + (IF ResetNotSubmitted THEN 1 ELSE 0)

\* both fences unsignaled: one submission pending, the other slot just reset
C11_Witness ==
    /\ pc = "record"
    /\ Unsignaled = MAX_FRAMES_IN_FLIGHT
    /\ Len(inflight) = 1

Stopped == { "panic", "drop", "dropped" }

\* C13: after an acquire or present result other than success, out-of-date or
\* suboptimal, the thread only unwinds: that call is the last operation of
\* the tick and no further tick starts.
C13_OtherResultsAreFatal ==
    /\ acquired = "ERROR_OTHER" =>
          /\ pc \in Stopped
          /\ tick_trace # << >>
          /\ tick_trace[Len(tick_trace)] = "acquire"
    /\ result = "ERROR_OTHER" =>
          /\ pc \in Stopped
          /\ tick_trace # << >>
          /\ tick_trace[Len(tick_trace)] = "present"

\* the application was dropped after present returned an unexpected error
C13_Witness == pc = "dropped" /\ result = "ERROR_OTHER"

\* C15: when recreate_swap_chain returns, self.resize is None.
C15_RebuildClearsResize ==
    [][(RecreateBuild /\ pc' # "panic") => resize' = None]_vars

\* C16: a tick in which acquire succeeds, present returns plain success and
\* no resize is pending calls recreate_swap_chain not at all and advances
\* current_frame by exactly one modulo N.
C16_UntriggeredTickDoesNotRebuild ==
    (InTick("present") /\ result = "SUCCESS" /\ resize = None) =>
        /\ ~ InTick("recreate_swap_chain")
        /\ pc \in { "resize_check", "advance", "idle", "drop", "dropped" }
        /\ pc = "idle" =>
              /\ Count("advance") = 1
              /\ current_frame = (frame_slot + 1) % MAX_FRAMES_IN_FLIGHT

\* an untriggered tick has ended, slot 0 -> slot 1
C16_Witness ==
    /\ pc = "idle"
    /\ InTick("present")
    /\ result = "SUCCESS"
    /\ resize = None
    /\ frame_slot = 0
    /\ current_frame = 1

\* C12: current_frame is always a slot index, and after ticks callbacks that
\* each ran to the end without a rebuild, counted from the start,
\* current_frame = ticks mod MAX_FRAMES_IN_FLIGHT
C12_FrameIndexCountsTicks ==
    /\ current_frame \in Slots
    /\ ticks >= 0 => current_frame = ticks % MAX_FRAMES_IN_FLIGHT

\* three ticks completed without a rebuild: the index has wrapped once
C12_Witness == pc = "idle" /\ ticks = 3 /\ current_frame = 1

\* x brought into the interval [lo, hi]
Clamp(x, lo, hi) == IF x < lo THEN lo ELSE IF x > hi THEN hi ELSE x

\* the extent a surface with capabilities caps allows for a request size
ClampedExtent(caps, size) ==
    IF caps.current_extent = << U32_MAX, U32_MAX >>
    THEN << Clamp(size[1], caps.min_image_extent[1], caps.max_image_extent[1]),
            Clamp(size[2], caps.min_image_extent[2], caps.max_image_extent[2]) >>
    ELSE caps.current_extent

\* C14: a resize notification is not lost: when the tick that ran with it
\* pending has ended, that tick has rebuilt the chain, and the chain's extent
\* is the notified size clamped per axis into the surface's bounds, or the
\* surface's fixed current extent
C14_ResizeRebuildsAtClampedExtent ==
    (pc = "idle" /\ resize # None) =>
        /\ InTick("recreate_swap_chain")
        /\ swap_chain_extent = ClampedExtent(support.capabilities, resize)

\* a tick ended with Resized(0, 0) on a surface whose minimum extent is (1, 1)
C14_Witness ==
    /\ pc = "idle"
    /\ resize = Some(0, 0)
    /\ support.capabilities.current_extent = << U32_MAX, U32_MAX >>
    /\ support.capabilities.min_image_extent = << 1, 1 >>
    /\ swap_chain_extent = << 1, 1 >>

\* C17: choose_swap_extent, for every request and every capability record:
\* a fixed current extent is the result whatever the request; otherwise the
\* result is the request clamped on each axis on its own into
\* [min_image_extent, max_image_extent]
C17_ExtentIsClampedRequest ==
    [][(RecreateBuildWide /\ pc' # "panic") =>
          swap_chain_extent' = ClampedExtent(support'.capabilities, recreate_size)
      ]_vars

\* a request (2, 0) on a surface with bounds (0, 1) .. (1, 2): the width came
\* down to 1, the height went up to 1
C17_Witness ==
    /\ pc = "harness"
    /\ InTick("recreate_swap_chain")
    /\ resize = Some(2, 0)
    /\ support.capabilities.current_extent = << U32_MAX, U32_MAX >>
    /\ support.capabilities.min_image_extent = << 0, 1 >>
    /\ support.capabilities.max_image_extent = << 1, 2 >>
    /\ swap_chain_extent = << 1, 1 >>

\* C18: the image count create_swap_chain requests is min_image_count + 1,
\* reduced to max_image_count when that is > 0 and exceeded; it is never below
\* min_image_count and, when max_image_count > 0, never above it
C18_ImageCountWithinBounds ==
    LET lo == support.capabilities.min_image_count
        hi == support.capabilities.max_image_count
        n  == create_info.min_image_count
    IN  /\ n = (IF hi > 0 /\ lo + 1 > hi THEN hi ELSE lo + 1)
        /\ n >= lo
        /\ hi > 0 => n <= hi

\* C19: choose_swap_surface_format returns a member of the reported list: the
\* 8-bit sRGB format with the sRGB-nonlinear colour space when the list holds
\* it at any position, the first entry of the list otherwise
C19_FormatIsPreferredOrFirst ==
    LET fs     == support.formats
        chosen == [ format      |-> create_info.image_format,
                    color_space |-> create_info.image_color_space ]
        srgb   == [ format      |-> "R8G8B8A8_SRGB",
                    color_space |-> "SRGB_NONLINEAR" ]
    IN  /\ \E i \in 1 .. Len(fs) : fs[i] = chosen
        /\ IF \E i \in 1 .. Len(fs) : fs[i] = srgb
           THEN chosen = srgb
           ELSE chosen = fs[1]

\* the pair stands second in the list and is chosen
C19_Witness ==
    /\ pc = "harness"
    /\ InTick("recreate_swap_chain")
    /\ Len(support.formats) = 2
    /\ support.formats[1].format = "B8G8R8A8_UNORM"
    /\ support.formats[2] = PreferredFormat
    /\ create_info.image_format = "R8G8B8A8_SRGB"
    /\ create_info.image_color_space = "SRGB_NONLINEAR"

\* C20: a call of recreate_swap_chain that follows another one, with the same
\* pending request and the same reported support details, creates the chain
\* with the same format, colour space, present mode, extent and image count
C20_RebuildIdempotent ==
    [][(/\ RecreateBuildWide
        /\ pc' # "panic"
        /\ Count("recreate_swap_chain") >= 2
        /\ support' = support) =>
          /\ create_info' = create_info
          /\ swap_chain_extent' = swap_chain_extent
      ]_vars

\* two calls in a row without a pending request on a surface whose largest
\* extent is (2, 1): the second call was handed the first one's extent
C20_Witness ==
    /\ pc = "harness"
    /\ Count("recreate_swap_chain") = 2
    /\ resize = None
    /\ support.capabilities.current_extent = << U32_MAX, U32_MAX >>
    /\ support.capabilities.max_image_extent = << 2, 1 >>
    /\ swap_chain_extent = << 2, 1 >>

\* C21: every handle is destroyed at most once: whenever cleanup_swap_chain
\* runs, in a rebuild or in Drop, each handle it destroys is still live, also
\* when Drop follows a creation step of recreate_swap_chain that failed
C21_DestroyedAtMostOnce ==
    [][(RecreateCleanup \/ Drop) => \A o \in ChainObjects : live[o]]_vars

\* C22: once a close request has been handled (device_wait_idle called and
\* ControlFlow::Exit set), the loop issues no acquire, no queue submission and
\* no present
C22_NoFrameAfterClose ==
    [][exit => ~ (\/ AcquireOk
                  \/ AcquireOutOfDate
                  \/ AcquireError
                  \/ QueueSubmit
                  \/ QueuePresent)]_vars

----------------------------------------------------------------------------
\* C23: within one tick the submission waits on the image-available
\* semaphore that this tick's acquire signaled, the present waits on the
\* render-finished semaphore that this tick's submission signals, a fence
\* becomes signaled only by the completion of a submission that names it,
\* and every fence, semaphore and command buffer the tick uses is the one at
\* index current_frame
C23_SubmitWaitsOnAcquire ==
    [][QueueSubmit => /\ InTick("acquire")
                      /\ image_available[image_available_semaphore]]_vars

C23_PresentWaitsOnSubmit ==
    [][QueuePresent =>
          /\ InTick("submit")
          /\ \/ render_finished[render_finished_semaphore]
             \/ \E i \in 1 .. Len(inflight) :
                   inflight[i].signal = render_finished_semaphore]_vars

C23_FenceSignaledByCompletion ==
    [][\A s \in Slots :
          (~ fence[s] /\ fence'[s]) =>
             /\ inflight # << >>
             /\ Head(inflight).slot = s
             /\ inflight' = Tail(inflight)]_vars

C23_PrimitivesOfCurrentFrame ==
    [][/\ (WaitForFences \/ ResetFenceAndBuffer) =>
             in_flight_fence = current_frame
       /\ (AcquireOk \/ AcquireOutOfDate \/ AcquireError) =>
             image_available_semaphore = current_frame
       /\ ResetFenceAndBuffer => command_buffer = current_frame
       /\ RecordCommandBuffer => record_target = current_frame
       /\ QueueSubmit => /\ command_buffer = current_frame
                         /\ image_available_semaphore = current_frame
                         /\ render_finished_semaphore = current_frame
                         /\ in_flight_fence = current_frame
       /\ QueuePresent => render_finished_semaphore = current_frame]_vars

C23_TickOrderedOnOwnPrimitives ==
    /\ C23_SubmitWaitsOnAcquire
    /\ C23_PresentWaitsOnSubmit
    /\ C23_FenceSignaledByCompletion
    /\ C23_PrimitivesOfCurrentFrame

----------------------------------------------------------------------------
\* C24: a rebuild (recreate_swap_chain from its device_wait_idle to its last
\* creation) leaves the per-slot objects alone: the command pool, the
\* semaphores and the fences stay alive and keep their state, no command
\* buffer is freed, reset or re-recorded (a recording can only become invalid
\* with the framebuffers it names), and current_frame keeps its value; the
\* per-slot objects are destroyed by Drop only
C24_RebuildKeepsSlotObjects ==
    [][/\ (RecreateWaitIdle \/ RecreateCleanup \/ RecreateBuild) =>
             /\ slots_live /\ slots_live'
             /\ UNCHANGED << fence, image_available, render_finished,
                             current_frame >>
             /\ \A s \in Slots :
                   /\ cb'[s].image = cb[s].image
                   /\ cb'[s].state \in { cb[s].state, "invalid" }
       /\ (slots_live /\ ~ slots_live') => pc = "drop"]_vars

C24_Witness ==
    /\ pc = "resize_check"
    /\ InTick("recreate_swap_chain")
    /\ \A o \in ChainObjects : live[o]
    /\ slots_live
    /\ current_frame = 1
    /\ cb[0].state = "invalid"

----------------------------------------------------------------------------
\* position of an object in the destruction sequence
Position(o) == CHOOSE k \in 1 .. Len(CleanupOrder) : CleanupOrder[k] = o

\* the live handles after the first k destructions of cleanup_swap_chain
LiveAfter(k) == [o \in ChainObjects |-> live[o] /\ Position(o) > k]

\* C25: cleanup_swap_chain destroys the framebuffers before the render pass
\* and the pipeline, the pipeline before its layout, the image views after
\* the framebuffers and before the swapchain; after none of its destructions
\* is a live object left that references a destroyed one
C25_DestroyedBeforeReferenced ==
    [][(RecreateCleanup \/ Drop) =>
          /\ live' = LiveAfter(Len(CleanupOrder))
          /\ Position("framebuffers") < Position("render_pass")
          /\ Position("framebuffers") < Position("pipeline")
          /\ Position("pipeline") < Position("pipeline_layout")
          /\ Position("framebuffers") < Position("image_views")
          /\ Position("image_views") < Position("swapchain")
          /\ \A k \in 0 .. Len(CleanupOrder), ref \in References :
                LiveAfter(k)[ref[1]] => LiveAfter(k)[ref[2]]]_vars

C25_Witness ==
    /\ pc = "rc_create"
    /\ ret = "resize_check"
    /\ \A o \in ChainObjects : ~ live[o]

----------------------------------------------------------------------------
\* C26: a rebuild never creates a swapchain whose extent has a zero width or
\* a zero height, whatever resize is pending and whatever the surface reports
C26_RebuildExtentNonZero ==
    [][(RecreateBuild /\ live'["swapchain"]) =>
          /\ create_info'.image_extent[1] > 0
          /\ create_info'.image_extent[2] > 0]_vars

----------------------------------------------------------------------------
\* C27: whenever a command buffer is recorded, the render pass, pipeline,
\* framebuffers and image views the fields hold are live objects of the
\* generation of the swapchain the image was acquired from (no rebuild ran
\* between the acquire and the recording), and swap_chain_extent is the extent
\* that swapchain was created with
C27_RecordsInOneGeneration ==
    [][RecordCommandBuffer =>
          /\ InTick("acquire")
          /\ ~ InTick("recreate_swap_chain")
          /\ \A o \in ChainObjects : live[o]
          /\ swap_chain_extent = create_info.image_extent]_vars

C27_Witness ==
    /\ pc = "record"
    /\ frame_slot = 1
    /\ cb[0].state = "invalid"
    /\ ~ InTick("recreate_swap_chain")
    /\ \A o \in ChainObjects : live[o]

----------------------------------------------------------------------------
\* C28: whenever the chain is completely built there are as many framebuffers
\* as image views and as many image views as swapchain images, so the index
\* of every acquired image is a valid index into swap_chain_frame_buffers
\* when the command buffer is recorded
C28_OneFramebufferPerImage ==
    /\ (\A o \in ChainObjects : live[o]) =>
          /\ swap_chain_frame_buffers = swap_chain_image_views
          /\ swap_chain_image_views = swap_chain_images
    /\ pc = "record" => image_index < swap_chain_frame_buffers

C28_Witness ==
    /\ pc = "record"
    /\ InTick("acquire")
    /\ image_index = swap_chain_images - 1
    /\ image_index > 0
    /\ cb[0].state = "invalid"

----------------------------------------------------------------------------
----------------------------------------------------------------------------
\* C30: a semaphore is signaled only while it is unsignaled and no waiter is
\* left on it: the acquire signals the slot's image-available semaphore only
\* after the wait of the previous submission on it has executed, a submission
\* signals the slot's render-finished semaphore only after the wait of the
\* previous present on it has executed, each signal has the one waiter of
\* its tick, and an acquire that reports out-of-date signals nothing
C30_AcquireSignalsUnsignaled ==
    [][AcquireOk =>
          /\ ~ image_available[image_available_semaphore]
          /\ \A i \in 1 .. Len(inflight) :
                inflight[i].wait # image_available_semaphore]_vars

C30_SubmitSignalsUnsignaled ==
    [][/\ QueueSubmit =>
             \A k \in 1 .. Len(presents) :
                presents[k].wait # render_finished_semaphore
       /\ GpuComplete => ~ render_finished[Head(inflight).signal]]_vars

C30_OutOfDateSignalsNothing ==
    [][AcquireOutOfDate => UNCHANGED image_available]_vars

C30_SemaphoresPaired ==
    /\ C30_AcquireSignalsUnsignaled
    /\ C30_SubmitSignalsUnsignaled
    /\ C30_OutOfDateSignalsNothing
====
